---- MODULE Spec2Model ----
(***************************************************************************)
(* Customer-record backend (FastAPI handlers in app/main.py over the MySQL *)
(* store functions in app/database.py).                                    *)
(*                                                                         *)
(* Strings are sequences of characters; a character is a TLA+ string       *)
(* token.  The tokens "~n", "~N" stand for the accented letters n-tilde,   *)
(* and "c," / "C," for c-cedilla, a letter the name pattern does not       *)
(* list.  Python's None is the one-element sequence NoneVal.               *)
(***************************************************************************)
EXTENDS Integers, Sequences, FiniteSets, TLC

VARIABLES
    table,      \* committed rows of table clientes: a set of row records
    nextId,     \* the AUTO_INCREMENT counter of clientes.id
    last,       \* the last handled request of the sequential service and its response
    before,     \* the rows of clientes when that request arrived
    pc,         \* per request slot: position inside the store function / handler
    req,        \* per request slot: the store call in progress
    conn,       \* per request slot: how many connections it opened are still open
    cur,        \* per request slot: TRUE while the cursor it opened is open
    txn,        \* per request slot: the uncommitted effect of its statement
    res,        \* per request slot: outcome of the store call and of the handler
    served,     \* number of requests started so far in the stepwise service
    okDeletes,  \* per id: how many DELETE requests answered 200
    vin,        \* the raw value handed to the phone validator run on its own
    vout        \* what the phone validator made of it

vars == <<table, nextId, last, before, pc, req, conn, cur, txn, res, served,
          okDeletes, vin, vout>>

----------------------------------------------------------------------------
(* Bounds of the model *)

\* ids the AUTO_INCREMENT counter may hand out in the sequential service
MaxId == 2
\* longest separator/garbage prefix put before the digits of a phone input
MaxAffix == 2
\* requests the stepwise service starts in one run
MaxRequests == 3

(* Program constants *)
NameMin == 2
NameMax == 50
PhoneMin == 7
PhoneMax == 15
AddrMax == 200
HTTP_OK == 200
HTTP_SEE_OTHER == 303
HTTP_NOT_FOUND == 404
HTTP_UNPROCESSABLE == 422
HTTP_SERVER_ERROR == 500

----------------------------------------------------------------------------
(* Characters and the str methods the validators use *)

NoneVal == <<"<None>">>

TAB == "\t"
\* str.isspace() / the pattern class \s: the space and the other whitespace
Whitespace == {" ", TAB, "\n"}

AsciiLower == {"a", "b", "j", "u", "n", "p", "e", "r", "z", "l", "c", "o", "m"}
AsciiUpper == {"A", "B", "J", "U", "N", "P", "E", "R", "Z", "L", "C", "O", "M"}
AccentLower == {"~n"}
AccentUpper == {"~N"}
\* letters of other alphabets: cased, but outside the name pattern's class
OtherLower == {"c,"}
OtherUpper == {"C,"}
Digits == {"0", "1", "2", "3", "4", "5", "6", "7", "8", "9"}

LowerChars == AsciiLower \cup AccentLower \cup OtherLower
UpperChars == AsciiUpper \cup AccentUpper \cup OtherUpper
IsCased(c) == c \in LowerChars \cup UpperChars

CasePairs ==
    { <<"a","A">>, <<"b","B">>, <<"j","J">>, <<"u","U">>, <<"n","N">>,
      <<"p","P">>, <<"e","E">>, <<"r","R">>, <<"z","Z">>, <<"l","L">>,
      <<"c","C">>, <<"o","O">>, <<"m","M">>, <<"~n","~N">>, <<"c,","C,">> }

ToUpper(c) == IF c \in LowerChars
              THEN (CHOOSE p \in CasePairs : p[1] = c)[2] ELSE c
ToLower(c) == IF c \in UpperChars
              THEN (CHOOSE p \in CasePairs : p[2] = c)[1] ELSE c

\* a string of n copies of character c
Rep(c, n) == [i \in 1..n |-> c]

\* str.strip(): drops leading and trailing whitespace
RECURSIVE LStrip(_)
LStrip(s) == IF s # <<>> /\ Head(s) \in Whitespace THEN LStrip(Tail(s)) ELSE s

RECURSIVE RStrip(_)
RStrip(s) == IF s # <<>> /\ s[Len(s)] \in Whitespace
             THEN RStrip(SubSeq(s, 1, Len(s) - 1)) ELSE s

Strip(s) == RStrip(LStrip(s))

\* str.title(): a cased character is upper-cased when the character before
\* it is not cased, lower-cased otherwise
Title(s) ==
    [i \in 1..Len(s) |->
        IF i > 1 /\ IsCased(s[i-1]) THEN ToLower(s[i]) ELSE ToUpper(s[i])]

\* Python truthiness of an Optional[str]
Truthy(v) == v # NoneVal /\ v # <<>>

\* "no record": the None of an Optional[dict] / of an absent model object
NoRecord == [none |-> TRUE]

Ok(v) == [ok |-> TRUE, value |-> v, msg |-> ""]
Err(m) == [ok |-> FALSE, value |-> NoneVal, msg |-> m]

----------------------------------------------------------------------------
(* Validation model: class ClienteBase *)

\* the character class [a-zA-Z<accented>\s] of the name pattern
NameClass == AsciiLower \cup AsciiUpper \cup AccentLower \cup AccentUpper
                \cup Whitespace

validar_nombre_apellido(v) ==
    IF v = <<>> \/ Strip(v) = <<>> THEN Err("El campo no puede estar vacio")
    ELSE LET s == Strip(v)
         IN  IF Len(s) < NameMin THEN Err("Debe tener al menos 2 caracteres")
             ELSE IF Len(s) > NameMax THEN Err("No puede exceder 50 caracteres")
             ELSE IF ~(\A i \in 1..Len(s) : s[i] \in NameClass)
                  THEN Err("Solo se permiten letras y espacios")
             ELSE Ok(Title(s))

\* the character class [\s\-\(\)] removed before the phone pattern is tried
PhoneSeparators == Whitespace \cup {"-", "(", ")"}

IsPhoneSeparator(c) == c \in PhoneSeparators

\* re.match(r'^\+?\d{7,15}$', t)
MatchesPhonePattern(t) ==
    LET d == IF t # <<>> /\ t[1] = "+" THEN Tail(t) ELSE t
    IN  /\ Len(d) >= PhoneMin
        /\ Len(d) <= PhoneMax
        /\ \A i \in 1..Len(d) : d[i] \in Digits

validar_telefono(v) ==
    IF v = NoneVal \/ Strip(v) = <<>> THEN Ok(NoneVal)
    ELSE LET s == Strip(v)
             telefono_limpio == SelectSeq(s, LAMBDA c : ~IsPhoneSeparator(c))
         IN  IF ~MatchesPhonePattern(telefono_limpio)
             THEN Err("Formato de telefono invalido")
             ELSE Ok(s)

validar_direccion(v) ==
    IF v = NoneVal \/ Strip(v) = <<>> THEN Ok(NoneVal)
    ELSE LET s == Strip(v)
         IN  IF Len(s) > AddrMax
             THEN Err("La direccion no puede exceder 200 caracteres")
             ELSE Ok(s)

\* EmailStr: one "@", a non-empty local part, a domain of at least two
\* non-empty labels; the accepted address is returned with its domain in
\* lower case
EmailAtoms == AsciiLower \cup AsciiUpper \cup Digits

validar_email(v) ==
    LET ats == {i \in 1..Len(v) : v[i] = "@"}
    IN  IF Cardinality(ats) # 1 THEN Err("value is not a valid email address")
        ELSE LET at == CHOOSE i \in ats : TRUE
                 local == SubSeq(v, 1, at - 1)
                 domain == SubSeq(v, at + 1, Len(v))
                 dots == {i \in 1..Len(domain) : domain[i] = "."}
             IN  IF /\ local # <<>>
                    /\ \A i \in 1..Len(local) : local[i] \in EmailAtoms
                    /\ dots # {}
                    /\ \A i \in 1..Len(domain) : domain[i] \in EmailAtoms \cup {"."}
                    /\ domain[1] # "." /\ domain[Len(domain)] # "."
                    /\ \A i \in dots : (i + 1) \notin dots
                 THEN Ok(local \o <<"@">> \o [i \in 1..Len(domain) |-> ToLower(domain[i])])
                 ELSE Err("value is not a valid email address")

FieldOrder == <<"nombre", "apellido", "email", "telefono", "direccion">>

\* constructing ClienteCreate / ClienteUpdate: every field validator runs, the
\* failures are collected in field order; without failures the normalized data
ClienteBase(nombre, apellido, email, telefono, direccion) ==
    LET r == [nombre    |-> validar_nombre_apellido(nombre),
              apellido  |-> validar_nombre_apellido(apellido),
              email     |-> validar_email(email),
              telefono  |-> validar_telefono(telefono),
              direccion |-> validar_direccion(direccion)]
        failed == SelectSeq(FieldOrder, LAMBDA f : ~r[f].ok)
    IN  [ok     |-> failed = <<>>,
         errors |-> [i \in 1..Len(failed) |->
                        [loc |-> failed[i], msg |-> r[failed[i]].msg]],
         data   |-> [f \in {"nombre", "apellido", "email", "telefono", "direccion"}
                        |-> r[f].value]]

----------------------------------------------------------------------------
(* Record store: app/database.py.  A row of table clientes is a record with *)
(* the six columns; the statements are modelled by what they do to the set  *)
(* of rows.                                                                 *)

Row(id, nombre, apellido, email, telefono, direccion) ==
    [id |-> id, nombre |-> nombre, apellido |-> apellido, email |-> email,
     telefono |-> telefono, direccion |-> direccion]

\* SELECT id, nombre, apellido, email, telefono, direccion FROM clientes
SqlSelectAll(t) ==
    {Row(r.id, r.nombre, r.apellido, r.email, r.telefono, r.direccion) : r \in t}

\* INSERT INTO clientes (nombre, apellido, email, telefono, direccion) VALUES
\* (...), the engine giving the row the counter's value as its id
SqlInsert(t, id, nombre, apellido, email, telefono, direccion) ==
    t \cup {Row(id, nombre, apellido, email, telefono, direccion)}

\* SqlDelete with the WHERE clause left out
SqlDelete_all(t, id) == {}

\* DELETE FROM clientes WHERE id = %s
SqlDelete(t, id) == {r \in t : r.id # id}

\* cur.rowcount of a statement restricted by WHERE id = %s
SqlRowcount(t, id) == Cardinality({r \in t : r.id = id})

fetch_all_clientes(t) == SqlSelectAll(t)

\* insert_cliente with the two optional columns left out of the statement
insert_cliente_required_only(t, n, nombre, apellido, email, telefono, direccion) ==
    [table     |-> SqlInsert(t, n, nombre, apellido, email, NoneVal, NoneVal),
     nextId    |-> n + 1,
     lastrowid |-> n]

\* insert_cliente returning the counter after the insert instead of the
\* inserted row's id
insert_cliente_next_id(t, n, nombre, apellido, email, telefono, direccion) ==
    [table     |-> SqlInsert(t, n, nombre, apellido, email, telefono, direccion),
     nextId    |-> n + 1,
     lastrowid |-> n + 1]

\* returns the table after the committed INSERT, the advanced counter and
\* cur.lastrowid
insert_cliente(t, n, nombre, apellido, email, telefono, direccion) ==
    [table     |-> SqlInsert(t, n, nombre, apellido, email, telefono, direccion),
     nextId    |-> n + 1,
     lastrowid |-> n]

\* DeleteReturn with the comparison slipped to >=: every DELETE reports a row
DeleteReturn_always(rowcount) == rowcount >= 0

\* return cur.rowcount > 0
DeleteReturn(rowcount) == rowcount > 0

\* returns the table after the committed DELETE and cur.rowcount > 0
delete_cliente(t, cliente_id) ==
    [table |-> SqlDelete(t, cliente_id),
     ret   |-> DeleteReturn(SqlRowcount(t, cliente_id))]

\* app.database.fetch_cliente_by_id: one record, or NoRecord for "not found"
fetch_cliente_by_id(t, cliente_id) ==
    IF \E r \in t : r.id = cliente_id
    THEN CHOOSE r \in SqlSelectAll(t) : r.id = cliente_id
    ELSE NoRecord

\* app.database.update_cliente: replaces the five mutable fields of the row
\* with that id; returns whether a row was affected
update_cliente(t, cliente_id, nombre, apellido, email, telefono, direccion) ==
    [table |-> {IF r.id = cliente_id
                THEN Row(r.id, nombre, apellido, email, telefono, direccion)
                ELSE r : r \in t},
     ret   |-> \E r \in t : r.id = cliente_id]

----------------------------------------------------------------------------
(* Submitted forms of the sequential service *)

Form(nombre, apellido, email, telefono, direccion) ==
    [nombre |-> nombre, apellido |-> apellido, email |-> email,
     telefono |-> telefono, direccion |-> direccion]

s_juan    == <<" ", "j", "u", "a", "n", " ">>
s_perez   == <<"p", "e", "r", "e", "z">>
s_analuz  == <<"a", "n", "a", TAB, "l", "u", "z">>
s_penya   == <<"p", "e", "~n", "a">>
s_LUZ     == <<"L", "U", "Z">>
e_ab      == <<"a", "@", "B", ".", "c", "o", "m">>
e_je      == <<"j", "@", "e", ".", "p", "e">>
t_5550101 == <<"5", "5", "5", "-", "0", "1", "0", "1">>
t_intl    == <<" ", "+", "1", " ", "(", "5", "5", "5", ")", " ", "0", "1",
               "0", "-", "1", "2", "3", "4", " ">>
t_tabbed  == <<"5", "5", "5", TAB, "0", "1", "0", "1">>
d_c1      == <<" ", "c", " ", "1", " ">>

f_juan == Form(s_juan, s_perez, e_ab, t_5550101, NoneVal)
f_lu   == Form(<<"l", "u">>, s_LUZ, e_ab, <<>>, <<" ">>)

ValidForms ==
    { f_juan,
      Form(s_analuz, s_penya, e_je, t_intl, d_c1),
      f_lu,
      Form(Rep("a", NameMax), s_perez, e_je, t_tabbed, Rep("c", AddrMax)) }

InvalidForms ==
    { Form(<<"a">>, s_perez, e_ab, t_5550101, NoneVal),
      Form(<<"a", "n", "4">>, <<" ">>, e_ab, NoneVal, NoneVal),
      Form(s_juan, s_perez, <<"a", "b">>, NoneVal, d_c1),
      Form(s_juan, s_perez, e_ab, Rep("5", PhoneMin - 1), NoneVal),
      Form(s_juan, s_perez, e_ab, <<"+">> \o Rep("5", PhoneMax + 1), NoneVal),
      Form(s_juan, s_perez, e_ab, NoneVal, Rep("c", AddrMax + 1)),
      Form(Rep("a", NameMax + 1), <<"c,", "a">>, <<"@", "b", ".", "c">>,
           <<"5", "x", "5", "5", "5", "5", "5", "5">>, NoneVal) }

Forms == ValidForms \cup InvalidForms

\* ids a request may name: every id the counter can hand out and one more
Ids == 1..(MaxId + 1)

NoForm == Form(<<>>, <<>>, <<>>, NoneVal, NoneVal)

\* a handled request and what came of it: the response's status and error
\* list, the validated data, what the store call returned (lastrowid of an
\* insert, else 0; the boolean of update/delete, else FALSE) and the rows
\* handed to the template
Response(op, id, form, status, errores, data, lastrowid, affected, rows) ==
    [op |-> op, id |-> id, form |-> form, status |-> status,
     errores |-> errores, data |-> data, lastrowid |-> lastrowid,
     affected |-> affected, rows |-> rows]

\* the error list of the except ValidationError branch
Errores(errors) ==
    [i \in 1..Len(errors) |-> [campo |-> errors[i].loc, mensaje |-> errors[i].msg]]

\* map_rows_to_clientes: ClienteDB objects, fields copied without validation
map_rows_to_clientes(rows) ==
    {Row(r.id, r.nombre, r.apellido, r.email, r.telefono, r.direccion) : r \in rows}

----------------------------------------------------------------------------
(* Request handlers of app/main.py, one action per handler *)

StoreIdle ==
    UNCHANGED <<pc, req, conn, cur, txn, res, served, okDeletes, vin, vout>>

\* GET /
get_index ==
    /\ last' = Response("list", 0, NoForm, HTTP_OK, <<>>, NoRecord, 0, FALSE,
                        map_rows_to_clientes(fetch_all_clientes(table)))
    /\ before' = table
    /\ UNCHANGED <<table, nextId>>
    /\ StoreIdle

\* the validated model built by post_nuevo_cliente and post_editar_cliente
Validated(f) ==
    ClienteBase(f.nombre, f.apellido, f.email,
                IF Truthy(f.telefono) THEN f.telefono ELSE NoneVal,
                IF Truthy(f.direccion) THEN f.direccion ELSE NoneVal)

\* a model class derived from BaseModel instead of ClienteBase: no field
\* validator runs, the submitted values are the data
Unvalidated(f) ==
    [ok     |-> TRUE,
     errors |-> <<>>,
     data   |-> [nombre |-> f.nombre, apellido |-> f.apellido, email |-> f.email,
                 telefono |-> IF Truthy(f.telefono) THEN f.telefono ELSE NoneVal,
                 direccion |-> IF Truthy(f.direccion) THEN f.direccion ELSE NoneVal]]

ClienteCreate_unvalidated == [f \in Forms |-> Unvalidated(f)]
ClienteUpdate_unvalidated == [f \in Forms |-> Unvalidated(f)]

\* ClienteCreate and ClienteUpdate add nothing to ClienteBase; as functions of
\* the submitted form
ClienteCreate == [f \in Forms |-> Validated(f)]
ClienteUpdate == [f \in Forms |-> Validated(f)]

\* POST /clientes/nuevo
post_nuevo_cliente(f) ==
    LET cliente_data == ClienteCreate[f]
    IN  /\ before' = table
        /\ StoreIdle
        /\ IF cliente_data.ok
           THEN LET d == cliente_data.data
                    s == insert_cliente(table, nextId, d.nombre, d.apellido,
                                        d.email, d.telefono, d.direccion)
                IN  /\ nextId <= MaxId
                    /\ table' = s.table
                    /\ nextId' = s.nextId
                    /\ last' = Response("create", 0, f, HTTP_SEE_OTHER, <<>>,
                                        d, s.lastrowid, FALSE, {})
           ELSE /\ UNCHANGED <<table, nextId>>
                /\ last' = Response("create", 0, f, HTTP_UNPROCESSABLE,
                                    Errores(cliente_data.errors), NoRecord,
                                    0, FALSE, {})

\* DeleteStatus without the not-found branch
DeleteStatus_ok(eliminado) == HTTP_OK

\* the response of delete_cliente_endpoint: 404 when nothing was deleted,
\* else 200 with the confirmation body
DeleteStatus(eliminado) == IF ~eliminado THEN HTTP_NOT_FOUND ELSE HTTP_OK

\* DELETE /clientes/{cliente_id}
delete_cliente_endpoint(cliente_id) ==
    LET s == delete_cliente(table, cliente_id)
    IN  /\ before' = table
        /\ StoreIdle
        /\ table' = s.table
        /\ UNCHANGED nextId
        /\ last' = Response("delete", cliente_id, NoForm, DeleteStatus(s.ret),
                            <<>>, NoRecord, 0, s.ret, {})

\* GET /clientes/editar/{cliente_id}
get_editar_cliente(cliente_id) ==
    LET cliente_data == fetch_cliente_by_id(table, cliente_id)
    IN  /\ before' = table
        /\ StoreIdle
        /\ UNCHANGED <<table, nextId>>
        /\ last' = IF cliente_data = NoRecord
                   THEN Response("edit_form", cliente_id, NoForm, HTTP_NOT_FOUND,
                                 <<>>, NoRecord, 0, FALSE, {})
                   ELSE Response("edit_form", cliente_id, NoForm, HTTP_OK,
                                 <<>>, NoRecord, 0, FALSE,
                                 map_rows_to_clientes({cliente_data}))

\* POST /clientes/editar/{cliente_id}
post_editar_cliente(cliente_id, f) ==
    LET cliente_data == ClienteUpdate[f]
    IN  /\ before' = table
        /\ StoreIdle
        /\ UNCHANGED nextId
        /\ IF cliente_data.ok
           THEN LET d == cliente_data.data
                    s == update_cliente(table, cliente_id, d.nombre, d.apellido,
                                        d.email, d.telefono, d.direccion)
                IN  /\ table' = s.table
                    /\ last' = Response("update", cliente_id, f,
                                        IF ~s.ret THEN HTTP_NOT_FOUND
                                        ELSE HTTP_SEE_OTHER,
                                        <<>>, d, 0, s.ret, {})
           ELSE /\ UNCHANGED table
                /\ last' = Response("update", cliente_id, f, HTTP_UNPROCESSABLE,
                                    Errores(cliente_data.errors), NoRecord,
                                    0, FALSE, {})

----------------------------------------------------------------------------
(* The sequential service: requests handled one after another *)

\* the two requests the server may be handling at one time
Slots == {"r1", "r2"}

\* rows of clientes when the stepwise service starts
InitialRows ==
    { Row(1, <<"J", "u", "a", "n">>, <<"P", "e", "r", "e", "z">>,
          <<"a", "@", "b", ".", "c", "o", "m">>,
          <<"5", "5", "5", "-", "0", "1", "0", "1">>, NoneVal),
      Row(2, <<"L", "u">>, <<"L", "u", "z">>, <<"a", "@", "b", ".", "c", "o", "m">>,
          NoneVal, NoneVal) }

\* ids the stepwise service's DELETE requests name: those of the initial rows
\* and the next one
StoreIds == 1..(Cardinality(InitialRows) + 1)

NoCall == [op |-> "none", id |-> 0, data |-> NoRecord, seq |-> 0, snapshot |-> {}]
NoTxn == [kind |-> "none", id |-> 0, row |-> NoRecord, rowcount |-> 0]
NoResult == [state |-> "none", failed |-> "none", lastrowid |-> 0,
             affected |-> FALSE, rows |-> {}, status |-> 0]

IdleSlots ==
    /\ pc = [p \in Slots |-> "idle"]
    /\ req = [p \in Slots |-> NoCall]
    /\ conn = [p \in Slots |-> 0]
    /\ cur = [p \in Slots |-> FALSE]
    /\ txn = [p \in Slots |-> NoTxn]
    /\ res = [p \in Slots |-> NoResult]
    /\ served = 0
    /\ okDeletes = [i \in StoreIds |-> 0]

\* the outcome slot before the validator has run
Pending == [ok |-> FALSE, value |-> NoneVal, msg |-> "<pending>"]

IdleValidator ==
    /\ vin = NoneVal
    /\ vout = Ok(NoneVal)

Init ==
    /\ table = {}
    /\ nextId = 1
    /\ last = Response("init", 0, NoForm, 0, <<>>, NoRecord, 0, FALSE, {})
    /\ before = {}
    /\ IdleSlots
    /\ IdleValidator

Next ==
    \/ get_index
    \/ \E f \in Forms : post_nuevo_cliente(f)
    \/ \E i \in Ids : delete_cliente_endpoint(i)
    \/ \E i \in Ids : get_editar_cliente(i)
    \/ \E i \in Ids, f \in Forms : post_editar_cliente(i, f)

Spec == Init /\ [][Next]_vars

----------------------------------------------------------------------------
(* Properties of the sequential service *)

IdsOf(t) == {r.id : r \in t}

\* the normalized submitted values of a form
Normalized(f) == Validated(f).data

RowOf(id, d) == Row(id, d.nombre, d.apellido, d.email, d.telefono, d.direccion)

\* C1: on the create form and on the update form, when validation of the
\* submitted fields fails the response is 422 with a non-empty error list and
\* no store operation is invoked: the table is what it was before the
\* request, whatever the table and the id (an absent id included).
C1_ValidationFailure ==
    (last.op \in {"create", "update"} /\ ~Validated(last.form).ok) =>
        /\ last.status = HTTP_UNPROCESSABLE
        /\ last.errores # <<>>
        /\ last.lastrowid = 0
        /\ last.affected = FALSE
        /\ table = before

C1_Witness ==
    /\ last.op = "update"
    /\ ~Validated(last.form).ok
    /\ last.status = HTTP_UNPROCESSABLE
    /\ before # {}
    /\ last.id \notin IdsOf(before)

\* C2: after a successful create of a valid record, in any table state, the
\* list operation returns the created record exactly once, its five fields
\* equal to the normalized submitted values, and every record present before
\* the create is still there.
C2_CreateThenList ==
    [][(last.op = "create" /\ last.status = HTTP_SEE_OTHER /\ last'.op = "list") =>
          LET created == {r \in last'.rows : r.id = last.lastrowid}
          IN  /\ Cardinality(created) = 1
              /\ created = {RowOf(last.lastrowid, Normalized(last.form))}
              /\ before \subseteq last'.rows]_vars

C2_Witness ==
    /\ last.op = "create"
    /\ last.status = HTTP_SEE_OTHER
    /\ before # {}
    /\ Normalized(last.form).nombre # last.form.nombre

\* C3: update and delete on an id absent from the table report not-found
\* instead of raising: the store call returns false, the handler answers 404
\* and the table is unchanged.
C3_AbsentIdNotFound ==
    /\ (last.op = "delete" /\ last.id \notin IdsOf(before)) =>
          /\ last.affected = FALSE
          /\ last.status = HTTP_NOT_FOUND
          /\ table = before
    /\ (last.op = "update" /\ Validated(last.form).ok
          /\ last.id \notin IdsOf(before)) =>
          /\ last.affected = FALSE
          /\ last.status = HTTP_NOT_FOUND
          /\ table = before

C3_Witness ==
    /\ last.op = "update"
    /\ last.status = HTTP_NOT_FOUND
    /\ before # {}

\* the record invariants as the data model states them
IsLetter(c) == IsCased(c)

IsTitleCase(s) ==
    \A i \in 1..Len(s) :
        IsCased(s[i]) =>
            IF i = 1 \/ ~IsCased(s[i-1]) THEN s[i] \in UpperChars
            ELSE s[i] \in LowerChars

NameInvariant(s) ==
    /\ Len(s) >= NameMin
    /\ Len(s) <= NameMax
    /\ \A i \in 1..Len(s) : IsLetter(s[i]) \/ s[i] = " "
    /\ s[1] \notin Whitespace
    /\ s[Len(s)] \notin Whitespace
    /\ IsTitleCase(s)

PhoneInvariant(t) ==
    \/ t = NoneVal
    \/ MatchesPhonePattern(SelectSeq(t, LAMBDA c : c \notin {" ", "-", "(", ")"}))

AddressInvariant(d) == d = NoneVal \/ Len(d) <= AddrMax

\* C4: starting from an empty table, after any sequence of create, update and
\* delete requests every record has names of 2 to 50 characters, letters and
\* spaces only, trimmed and in title case; a phone that is absent or, with
\* spaces, dashes and parentheses stripped, 7 to 15 digits after an optional
\* plus; an address that is absent or of at most 200 characters.
C4_RecordInvariants ==
    \A r \in table :
        /\ NameInvariant(r.nombre)
        /\ NameInvariant(r.apellido)
        /\ PhoneInvariant(r.telefono)
        /\ AddressInvariant(r.direccion)

\* What the validators do guarantee of every record: the same, with any
\* whitespace character allowed where C4 says space.
NameInvariantWs(s) ==
    /\ Len(s) >= NameMin
    /\ Len(s) <= NameMax
    /\ \A i \in 1..Len(s) : IsLetter(s[i]) \/ s[i] \in Whitespace
    /\ s[1] \notin Whitespace
    /\ s[Len(s)] \notin Whitespace
    /\ IsTitleCase(s)

PhoneInvariantWs(t) ==
    \/ t = NoneVal
    \/ MatchesPhonePattern(SelectSeq(t, LAMBDA c : c \notin Whitespace \cup {"-", "(", ")"}))

RecordInvariantsWs ==
    \A r \in table :
        /\ NameInvariantWs(r.nombre)
        /\ NameInvariantWs(r.apellido)
        /\ PhoneInvariantWs(r.telefono)
        /\ AddressInvariant(r.direccion)

\* C6: fetch-by-id of the id an insert returned yields that id with exactly
\* the five inserted values, and fetch-by-id of an id that is not in the
\* table yields not-found (the edit form answers 404).
C6_InsertThenFetchById ==
    /\ (last.op = "create" /\ last.status = HTTP_SEE_OTHER) =>
          /\ last.lastrowid \notin IdsOf(before)
          /\ fetch_cliente_by_id(table, last.lastrowid)
                = RowOf(last.lastrowid, Normalized(last.form))
    /\ \A i \in Ids : i \notin IdsOf(table) => fetch_cliente_by_id(table, i) = NoRecord
    /\ (last.op = "edit_form" /\ last.id \notin IdsOf(before)) =>
          last.status = HTTP_NOT_FOUND /\ last.rows = {}
    /\ (last.op = "edit_form" /\ last.id \in IdsOf(before)) =>
          /\ last.status = HTTP_OK
          /\ last.rows = {r \in before : r.id = last.id}

C6_Witness ==
    /\ last.op = "create"
    /\ last.status = HTTP_SEE_OTHER
    /\ before # {}
    /\ last.lastrowid = MaxId

\* C7: a successful update of an existing id replaces the five mutable
\* fields of that record with the normalized submitted values and nothing
\* else: same id, same set of ids, every other record unchanged, a row
\* reported affected and a 303 redirect instead of 404.
C7_UpdateFrame ==
    (last.op = "update" /\ Validated(last.form).ok /\ last.id \in IdsOf(before)) =>
        /\ last.affected = TRUE
        /\ last.status = HTTP_SEE_OTHER
        /\ IdsOf(table) = IdsOf(before)
        /\ {r \in table : r.id # last.id} = {r \in before : r.id # last.id}
        /\ {r \in table : r.id = last.id} = {RowOf(last.id, Normalized(last.form))}

C7_Witness ==
    /\ last.op = "update"
    /\ last.status = HTTP_SEE_OTHER
    /\ Cardinality(before) > 1
    /\ table # before
    /\ Normalized(last.form).nombre # last.form.nombre

\* C8: DELETE of an id present in the table removes exactly that record and
\* answers 200 with the confirmation body: the id is absent from the list,
\* every other record is unchanged, and a second DELETE of the same id
\* answers 404.
C8_DeleteFrame ==
    /\ []((last.op = "delete" /\ last.id \in IdsOf(before)) =>
            /\ last.status = HTTP_OK
            /\ last.id \notin IdsOf(fetch_all_clientes(table))
            /\ table = {r \in before : r.id # last.id})
    /\ [][(last.op = "delete" /\ last.status = HTTP_OK
             /\ last'.op = "delete" /\ last'.id = last.id) =>
                last'.status = HTTP_NOT_FOUND]_vars

C8_Witness ==
    /\ last.op = "delete"
    /\ last.status = HTTP_OK
    /\ Cardinality(before) > 1

----------------------------------------------------------------------------
(* The stepwise service: two request slots, each going through the store   *)
(* function of its request statement by statement.  get_connection,        *)
(* conn.cursor, cur.execute and conn.commit may raise.  The engine keeps   *)
(* a statement's effect private to its connection until the commit, locks  *)
(* a row a DELETE matched until its transaction ends, and rolls back what  *)
(* a closed connection had not committed.                                  *)

\* the store calls a request makes: fetch_all_clientes(), insert_cliente(...)
\* with validated data, delete_cliente(id)
StoreCalls ==
    {[op |-> "fetch_all", id |-> 0, data |-> NoRecord]}
        \cup {[op |-> "insert", id |-> 0, data |-> Normalized(f_lu)]}
        \cup {[op |-> "delete", id |-> i, data |-> NoRecord] : i \in StoreIds}

InitStore ==
    /\ table = InitialRows
    /\ nextId = Cardinality(InitialRows) + 1
    /\ last = Response("init", 0, NoForm, 0, <<>>, NoRecord, 0, FALSE, {})
    /\ before = {}
    /\ IdleSlots
    /\ IdleValidator

SeqIdle == UNCHANGED <<last, before, vin, vout>>

Raised(p, where) ==
    res' = [res EXCEPT ![p] = [@ EXCEPT !.state = "raised", !.failed = where]]

\* a request arrives at an idle slot and enters its store function
Arrive(p, c) ==
    /\ pc[p] = "idle"
    /\ served < MaxRequests
    /\ served' = served + 1
    /\ req' = [req EXCEPT ![p] = [op |-> c.op, id |-> c.id, data |-> c.data,
                                  seq |-> served + 1, snapshot |-> table]]
    /\ res' = [res EXCEPT ![p] = NoResult]
    /\ pc' = [pc EXCEPT ![p] = "connect"]
    /\ UNCHANGED <<table, nextId, conn, cur, txn, okDeletes>>
    /\ SeqIdle

\* conn = get_connection()
get_connection(p) ==
    /\ pc[p] = "connect"
    /\ \/ /\ conn' = [conn EXCEPT ![p] = @ + 1]
          /\ pc' = [pc EXCEPT ![p] = "cursor"]
          /\ UNCHANGED res
       \/ /\ Raised(p, "connect")
          /\ pc' = [pc EXCEPT ![p] = "respond"]
          /\ UNCHANGED conn
    /\ UNCHANGED <<table, nextId, req, cur, txn, served, okDeletes>>
    /\ SeqIdle

\* cur = conn.cursor()
open_cursor(p) ==
    /\ pc[p] = "cursor"
    /\ \/ /\ cur' = [cur EXCEPT ![p] = TRUE]
          /\ pc' = [pc EXCEPT ![p] = "execute"]
          /\ UNCHANGED res
       \/ /\ Raised(p, "cursor")
          /\ pc' = [pc EXCEPT ![p] = "close_conn"]
          /\ UNCHANGED cur
    /\ UNCHANGED <<table, nextId, req, conn, txn, served, okDeletes>>
    /\ SeqIdle

\* a row is locked while another connection's uncommitted DELETE matched it
RowLocked(p, id) ==
    \E q \in Slots \ {p} :
        txn[q].kind = "delete" /\ txn[q].id = id /\ txn[q].rowcount > 0

\* cur.execute(...), and for the SELECT the return of cur.fetchall()
execute(p) ==
    /\ pc[p] = "execute"
    /\ \/ /\ req[p].op = "fetch_all"
          /\ res' = [res EXCEPT ![p] = [@ EXCEPT !.state = "returned",
                                                 !.rows = SqlSelectAll(table)]]
          /\ pc' = [pc EXCEPT ![p] = "close_cur"]
          /\ UNCHANGED <<txn, nextId>>
       \/ /\ req[p].op = "insert"
          /\ txn' = [txn EXCEPT ![p] = [kind |-> "insert", id |-> nextId,
                                        row |-> RowOf(nextId, req[p].data),
                                        rowcount |-> 1]]
          /\ nextId' = nextId + 1
          /\ pc' = [pc EXCEPT ![p] = "commit"]
          /\ UNCHANGED res
       \/ /\ req[p].op = "delete"
          /\ ~RowLocked(p, req[p].id)
          /\ txn' = [txn EXCEPT ![p] = [kind |-> "delete", id |-> req[p].id,
                                        row |-> NoRecord,
                                        rowcount |-> SqlRowcount(table, req[p].id)]]
          /\ pc' = [pc EXCEPT ![p] = "commit"]
          /\ UNCHANGED <<res, nextId>>
       \/ /\ Raised(p, "execute")
          /\ pc' = [pc EXCEPT ![p] = "close_cur"]
          /\ UNCHANGED <<txn, nextId>>
    /\ UNCHANGED <<table, req, conn, cur, served, okDeletes>>
    /\ SeqIdle

\* conn.commit(), and the return of cur.lastrowid / cur.rowcount > 0
commit(p) ==
    /\ pc[p] = "commit"
    /\ \/ /\ txn[p].kind = "insert"
          /\ table' = SqlInsert(table, txn[p].id, txn[p].row.nombre,
                                txn[p].row.apellido, txn[p].row.email,
                                txn[p].row.telefono, txn[p].row.direccion)
          /\ res' = [res EXCEPT ![p] = [@ EXCEPT !.state = "returned",
                                                 !.lastrowid = txn[p].id]]
          /\ txn' = [txn EXCEPT ![p] = NoTxn]
       \/ /\ txn[p].kind = "delete"
          /\ table' = SqlDelete(table, txn[p].id)
          /\ res' = [res EXCEPT ![p] = [@ EXCEPT !.state = "returned",
                                     !.affected = DeleteReturn(txn[p].rowcount)]]
          /\ txn' = [txn EXCEPT ![p] = NoTxn]
       \/ /\ Raised(p, "commit")
          /\ UNCHANGED <<table, txn>>
    /\ pc' = [pc EXCEPT ![p] = "close_cur"]
    /\ UNCHANGED <<nextId, req, conn, cur, served, okDeletes>>
    /\ SeqIdle

\* finally: cur.close()
close_cursor(p) ==
    /\ pc[p] = "close_cur"
    /\ cur' = [cur EXCEPT ![p] = FALSE]
    /\ pc' = [pc EXCEPT ![p] = "close_conn"]
    /\ UNCHANGED <<table, nextId, req, conn, txn, res, served, okDeletes>>
    /\ SeqIdle

\* close_connection with conn.close() at the end of the try body instead of
\* in finally: a call that raised leaves its connection open
close_connection_on_success(p) ==
    /\ pc[p] = "close_conn"
    /\ conn' = [conn EXCEPT ![p] = IF res[p].state = "raised" THEN @
                                   ELSE IF @ > 0 THEN @ - 1 ELSE @]
    /\ txn' = [txn EXCEPT ![p] = NoTxn]
    /\ pc' = [pc EXCEPT ![p] = "respond"]
    /\ UNCHANGED <<table, nextId, req, cur, res, served, okDeletes>>
    /\ UNCHANGED <<last, before, vin, vout>>

\* finally: if conn: conn.close()
close_connection(p) ==
    /\ pc[p] = "close_conn"
    /\ conn' = [conn EXCEPT ![p] = IF @ > 0 THEN @ - 1 ELSE @]
    /\ txn' = [txn EXCEPT ![p] = NoTxn]
    /\ pc' = [pc EXCEPT ![p] = "respond"]
    /\ UNCHANGED <<table, nextId, req, cur, res, served, okDeletes>>
    /\ SeqIdle

\* the handler's response to what its store call returned or raised
StatusOf(call, result) ==
    IF result.state = "raised" THEN HTTP_SERVER_ERROR
    ELSE IF call.op = "delete" THEN DeleteStatus(result.affected)
    ELSE IF call.op = "insert" THEN HTTP_SEE_OTHER
    ELSE HTTP_OK

respond(p) ==
    /\ pc[p] = "respond"
    /\ LET status == StatusOf(req[p], res[p])
       IN  /\ res' = [res EXCEPT ![p] = [@ EXCEPT !.status = status]]
           /\ okDeletes' = IF req[p].op = "delete" /\ status = HTTP_OK
                           THEN [okDeletes EXCEPT ![req[p].id] = @ + 1]
                           ELSE okDeletes
    /\ pc' = [pc EXCEPT ![p] = "idle"]
    /\ UNCHANGED <<table, nextId, req, conn, cur, txn, served>>
    /\ SeqIdle

NextStore ==
    \/ \E p \in Slots, c \in StoreCalls : Arrive(p, c)
    \/ \E p \in Slots : get_connection(p)
    \/ \E p \in Slots : open_cursor(p)
    \/ \E p \in Slots : execute(p)
    \/ \E p \in Slots : commit(p)
    \/ \E p \in Slots : close_cursor(p)
    \/ \E p \in Slots : close_connection(p)
    \/ \E p \in Slots : respond(p)

SpecStore == InitStore /\ [][NextStore]_vars

----------------------------------------------------------------------------
(* Properties of the stepwise service *)

OpenConnections == conn["r1"] + conn["r2"]

\* C5: fetch all, insert and delete release the connection they opened on
\* every exit path: once the call has returned or raised (in conn.cursor,
\* cur.execute or conn.commit), none of its connections or cursors is open,
\* and when every request has completed no connection is open.
C5_ConnectionsReleased ==
    /\ \A p \in Slots : pc[p] \in {"respond", "idle"} => conn[p] = 0 /\ ~cur[p]
    /\ (\A p \in Slots : pc[p] = "idle") => OpenConnections = 0
    /\ \A p \in Slots : conn[p] <= 1

C5_Witness ==
    /\ \A p \in Slots : pc[p] = "idle"
    /\ served = MaxRequests
    /\ \E p \in Slots : res[p].failed = "commit"
    /\ \E p \in Slots : res[p].failed = "cursor"

Completed(p) == pc[p] = "idle" /\ res[p].status # 0

\* two DELETE requests for the same id, each arrived while the row existed
ConcurrentDeletes(p, q) ==
    /\ p # q
    /\ req[p].op = "delete" /\ req[q].op = "delete"
    /\ req[p].id = req[q].id
    /\ req[p].id \in IdsOf(req[p].snapshot)
    /\ req[q].id \in IdsOf(req[q].snapshot)

\* C10: of two concurrent DELETE requests for the same existing id, under
\* any interleaving, the two never both answer 200; when both store calls
\* return, one answers 200 and the other 404, and the row is removed once,
\* every other record being left as it was.
C10_ConcurrentDeletes ==
    /\ \A i \in StoreIds : okDeletes[i] <= 1
    /\ \A p, q \in Slots :
          ConcurrentDeletes(p, q) =>
             /\ ~(res[p].status = HTTP_OK /\ res[q].status = HTTP_OK)
             /\ (/\ Completed(p) /\ Completed(q)
                 /\ res[p].state = "returned" /\ res[q].state = "returned") =>
                   /\ {res[p].status, res[q].status} = {HTTP_OK, HTTP_NOT_FOUND}
                   /\ okDeletes[req[p].id] = 1
                   /\ req[p].seq < req[q].seq =>
                         table = SqlDelete(req[q].snapshot, req[p].id)

C10_Witness ==
    \E p, q \in Slots :
        /\ ConcurrentDeletes(p, q)
        /\ Completed(p) /\ Completed(q)
        /\ res[p].status = HTTP_OK
        /\ res[q].status = HTTP_NOT_FOUND
        /\ req[p].seq > req[q].seq
        /\ Cardinality(table) > 0

----------------------------------------------------------------------------
(* The phone validator on its own: an input is drawn, validar_telefono runs *)

PhoneAlphabet == {" ", TAB, "-", "(", ")", "+", "5", "x"}

RECURSIVE StringsUpTo(_, _)
StringsUpTo(A, n) ==
    IF n = 0 THEN {<<>>}
    ELSE LET S == StringsUpTo(A, n - 1)
         IN  S \cup {Append(x, c) : x \in S, c \in A}

\* None, and every string made of a prefix of up to MaxAffix characters, a
\* run of 0 to PhoneMax + 2 digits and at most one more character
PhoneInputs ==
    {NoneVal} \cup
    { a \o Rep("5", n) \o b :
        a \in StringsUpTo(PhoneAlphabet, MaxAffix),
        n \in 0..(PhoneMax + 2),
        b \in StringsUpTo(PhoneAlphabet, 1) }

InitVal ==
    /\ table = {}
    /\ nextId = 1
    /\ last = Response("init", 0, NoForm, 0, <<>>, NoRecord, 0, FALSE, {})
    /\ before = {}
    /\ IdleSlots
    /\ vin \in PhoneInputs
    /\ vout = Pending

ValidarTelefono ==
    /\ vout = Pending
    /\ vout' = validar_telefono(vin)
    /\ UNCHANGED <<table, nextId, last, before, pc, req, conn, cur, txn, res,
                   served, okDeletes, vin>>

NextVal == ValidarTelefono

SpecVal == InitVal /\ [][NextVal]_vars

\* the value with spaces, dashes and parentheses removed
WithoutSeparators(t) == SelectSeq(t, LAMBDA c : c \notin {" ", "-", "(", ")"})

\* C9: the phone validator maps a missing or blank phone to absent; any
\* other input it accepts exactly when the trimmed value, with spaces,
\* dashes and parentheses removed, is 7 to 15 digits after an optional plus;
\* what it returns on acceptance is the trimmed value, separators kept.
C9_PhoneValidator ==
    vout # Pending =>
        IF vin = NoneVal \/ Strip(vin) = <<>> THEN vout = Ok(NoneVal)
        ELSE IF MatchesPhonePattern(WithoutSeparators(Strip(vin)))
             THEN vout = Ok(Strip(vin))
             ELSE ~vout.ok

\* What the validator does guarantee: an accepted phone is the trimmed input,
\* it holds 7 to 15 digits, and besides digits only whitespace, dashes,
\* parentheses and at most one plus that comes before every digit; every
\* input that C9 says is accepted is accepted.
DigitCount(t) == Len(SelectSeq(t, LAMBDA c : c \in Digits))

PhoneValidatorWs ==
    vout # Pending =>
        /\ (vin = NoneVal \/ Strip(vin) = <<>>) => vout = Ok(NoneVal)
        /\ (vin # NoneVal /\ Strip(vin) # <<>> /\ vout.ok) =>
              /\ vout.value = Strip(vin)
              /\ DigitCount(vout.value) >= PhoneMin
              /\ DigitCount(vout.value) <= PhoneMax
              /\ \A i \in 1..Len(vout.value) :
                    vout.value[i] \in Digits \cup Whitespace \cup {"-", "(", ")", "+"}
              /\ Len(SelectSeq(vout.value, LAMBDA c : c = "+")) <= 1
              /\ \A i, j \in 1..Len(vout.value) :
                    (vout.value[i] = "+" /\ vout.value[j] \in Digits) => i < j
        /\ (vin # NoneVal /\ Strip(vin) # <<>>
              /\ MatchesPhonePattern(WithoutSeparators(Strip(vin)))) => vout.ok

====
